---- MODULE Spec2Model ----
(***************************************************************************)
(* firefly.math.rotation_matrix: the elemental rotation generator          *)
(* (rotx, roty, rotz over the private helper __fundamentalRotation), as    *)
(* exercised by demo/rotation_matrix.ipynb.                                *)
(*                                                                         *)
(* Reals are modelled in fixed point: an angle is an integer count of      *)
(* 1/AngleUnit, a matrix entry an integer count of 1/Scale.  An ndarray is *)
(* a heap object holding a flat row-major sequence: 3 entries for the axis *)
(* vector, 9 for a 3x3 matrix, <<>> for a free slot.                       *)
(***************************************************************************)
EXTENDS Integers, Sequences, FiniteSets, TLC

\* ------------------------------------------------------------------ bounds
NumCallers == 2
MaxK == 24
GridStep == 26180
Large == 2000000000
Tol == 10

\* ------------------------------------------------------- number model
AngleUnit == 100000
Scale == 10000

Abs(x) == IF x < 0 THEN -x ELSE x

mul(a, b) == (a * b) \div Scale

\* 2*pi = 6.2831853 and pi/2 = 1.5707963, in angle units
TwoPiDiv == 628319
TwoPiHi == 628318
TwoPiLo == 53
HalfPi == 157080

\* the argument of sin/cos brought into one period; the period is split in
\* two parts so that many periods do not accumulate the rounding of 2*pi
rangeReduce(t) ==
    LET k == t \div TwoPiDiv
    IN  t - k * TwoPiHi - ((k * TwoPiLo) \div 100)

\* sin and cos on the first quadrant, x in 1/Scale
sinq(x) ==
    LET x2 == mul(x, x)
        t3 == mul(x, x2) \div 6
        t5 == mul(t3, x2) \div 20
        t7 == mul(t5, x2) \div 42
        t9 == mul(t7, x2) \div 72
    IN  x - t3 + t5 - t7 + t9

cosq(x) ==
    LET x2 == mul(x, x)
        t2 == x2 \div 2
        t4 == mul(t2, x2) \div 12
        t6 == mul(t4, x2) \div 30
        t8 == mul(t6, x2) \div 56
        t10 == mul(t8, x2) \div 90
    IN  Scale - t2 + t4 - t6 + t8 - t10

\* <<sin t, cos t>> for an angle t in radians (1/AngleUnit)
sincos(t) ==
    LET r == rangeReduce(t)
        q == r \div HalfPi
        x == (r - q * HalfPi + 5) \div 10
        s == sinq(x)
        c == cosq(x)
    IN  CASE q % 4 = 0 -> <<s, c>>
          [] q % 4 = 1 -> <<c, -s>>
          [] q % 4 = 2 -> <<-s, -c>>
          [] OTHER     -> <<-c, s>>

np_sin(t) == sincos(t)[1]
np_cos(t) == sincos(t)[2]

\* np.rad2deg / np.deg2rad of a whole number n, result in angle units
RadToDeg == 5729578
np_rad2deg(n) == n * RadToDeg
np_deg2rad(n) == (n * 1745329) \div 1000

\* degrees (angle units) to radians (angle units), for any angle
degToRad(theta) ==
    LET q == theta \div AngleUnit
        r == theta % AngleUnit
    IN  q * 1745 + (q * 329) \div 1000 + (r * 1745) \div AngleUnit


\* -------------------------------------------------------------- values
\* a Python value passed as the angle: its type and its numeric value
\* (a float's value in angle units, an int's value as the integer itself)
PyFloat(v) == [kind |-> "float", val |-> v]
PyInt(n) == [kind |-> "int", val |-> n]

\* the beartype check of the hint theta: float (an int is not a float);
\* acceptsInt is the check a hint of int | float would make
acceptsInt(v) == v.kind \in {"float", "int"}
IsFloat(v) == v.kind = "float"

BeartypeCallHintParamViolation == "BeartypeCallHintParamViolation"

\* where the check runs: in the beartype wrapper of __fundamentalRotation,
\* entered from the public function ("public" is the body of rotx/roty/rotz);
\* checkInPublic is the site a decorated public function would check at
checkInPublic == "public"
CheckSite == "helper"

\* the demo's angle: rotation_angle = np.rad2deg(45); deg2radAngle is the
\* angle np.deg2rad(45) would give
deg2radAngle == np_deg2rad(45)
rotation_angle == np_rad2deg(45)

\* the angle handed to sin/cos: theta itself, taken as radians (degToRad above
\* is the conversion a helper working in degrees would apply)
thetaRad(theta) == theta

\* the literal each public function builds and passes as axis; the first three
\* are wrong literals for rotx: not of unit length, or the axis of rotz
rotxAxisNotUnit == <<1, 1, 0>>
rotxAxisScaled == <<2, 0, 0>>
rotxAxisZ == <<0, 0, 1>>
rotxAxis == <<1, 0, 0>>
rotyAxis == <<0, 1, 0>>
rotzAxis == <<0, 0, 1>>

Funcs == {"rotx", "roty", "rotz"}

AxisArg(f) ==
    CASE f = "rotx" -> rotxAxis
      [] f = "roty" -> rotyAxis
      [] OTHER      -> rotzAxis

\* ------------------------------------------------------------ matrices
\* entry (i, j) of a flat row-major 3x3 matrix
At(m, i, j) == m[3 * (i - 1) + j]

\* the Levi-Civita symbol on 1..3
eps(i, j, k) == ((i - j) * (j - k) * (k - i)) \div 2

\* the assembly shared by the three public functions: identity along the
\* axis, the two other axes mixed by c and s:
\* c*I + (1 - c)*a*a^T + s*sum_k eps(i,j,k)*a_k.
\* swappedRotation is that assembly with sin and cos exchanged.
swappedRotation(axis, theta) ==
    LET c == np_sin(thetaRad(theta))
        s == np_cos(thetaRad(theta))
    IN  [n \in 1..9 |->
            LET i == ((n - 1) \div 3) + 1
                j == ((n - 1) % 3) + 1
            IN  (IF i = j THEN c ELSE 0)
                + (Scale - c) * axis[i] * axis[j]
                + s * (eps(i, j, 1) * axis[1] + eps(i, j, 2) * axis[2]
                       + eps(i, j, 3) * axis[3])]

fundamentalRotation(axis, theta) ==
    LET c == np_cos(thetaRad(theta))
        s == np_sin(thetaRad(theta))
    IN  [n \in 1..9 |->
            LET i == ((n - 1) \div 3) + 1
                j == ((n - 1) % 3) + 1
            IN  (IF i = j THEN c ELSE 0)
                + (Scale - c) * axis[i] * axis[j]
                + s * (eps(i, j, 1) * axis[1] + eps(i, j, 2) * axis[2]
                       + eps(i, j, 3) * axis[3])]

\* what one call of f with a float angle returns when run alone
Solo(f, theta) == fundamentalRotation(AxisArg(f), theta)

Identity == <<Scale, 0, 0, 0, Scale, 0, 0, 0, Scale>>

\* entry (i, j) of m * m^T, in 1/Scale^2
Gram(m, i, j) ==
    At(m, i, 1) * At(m, j, 1) + At(m, i, 2) * At(m, j, 2)
    + At(m, i, 3) * At(m, j, 3)

Orthonormal(m) ==
    \A i \in 1..3 : \A j \in 1..3 :
        Abs(Gram(m, i, j) - (IF i = j THEN Scale * Scale ELSE 0)) <= Tol * Scale

Det(m) ==
      mul(At(m, 1, 1), mul(At(m, 2, 2), At(m, 3, 3)) - mul(At(m, 2, 3), At(m, 3, 2)))
    - mul(At(m, 1, 2), mul(At(m, 2, 1), At(m, 3, 3)) - mul(At(m, 2, 3), At(m, 3, 1)))
    + mul(At(m, 1, 3), mul(At(m, 2, 1), At(m, 3, 2)) - mul(At(m, 2, 2), At(m, 3, 1)))

MatClose(a, b) ==
    /\ Len(a) = 9
    /\ Len(b) = 9
    /\ \A n \in 1..9 : Abs(a[n] - b[n]) <= Tol

\* ---------------------------------------------------------------- state
Callers == 1..NumCallers
MaxObjs == 2 * NumCallers
Ids == 1..MaxObjs

VARIABLES
    pc,       \* per caller: "idle", "public", "helper", "done", "raised"
    req,      \* per caller: the call as issued, [f, v]
    locals,   \* per frame: the call's locals [f, theta, axis]
    checked,  \* per caller: the type check has passed
    ret,      \* per caller: the returned ndarray (heap id), 0 if none
    err,      \* per caller: the exception that reached the caller
    work,     \* per caller: what the call has computed so far
    heap,     \* the ndarrays: id -> flat contents, <<>> when free
    dirty     \* the returned matrices a caller has written to

vars == <<pc, req, locals, checked, ret, err, work, heap, dirty>>

\* each call runs in its own frame (sharedFrame: locals kept in one module-level
\* slot)
sharedFrame(t) == 1
Frame(t) == t

\* np.array(...) and the assembly allocate a new ndarray (staleId: one
\* preallocated array reused by every call)
staleId(h) == 1
FreshId(h) == CHOOSE i \in Ids : h[i] = <<>> /\ \A j \in Ids : h[j] = <<>> => i <= j

\* the axis vector a frame refers to (an unset or reused slot reads as zeros)
AxisVec(h, id) == IF id \in Ids /\ Len(h[id]) >= 3 THEN h[id] ELSE <<0, 0, 0>>

NoReq == [f |-> "none", v |-> PyInt(0)]
NoLocals == [f |-> "none", theta |-> PyInt(0), axis |-> 0]

Init ==
    /\ pc = [t \in Callers |-> "idle"]
    /\ req = [t \in Callers |-> NoReq]
    /\ locals = [t \in Callers |-> NoLocals]
    /\ checked = [t \in Callers |-> FALSE]
    /\ ret = [t \in Callers |-> 0]
    /\ err = [t \in Callers |-> "none"]
    /\ work = [t \in Callers |-> {}]
    /\ heap = [i \in Ids |-> <<>>]
    /\ dirty = {}

\* caller t invokes f(v); whatever it held from its previous call is dropped
Call(t, f, v) ==
    /\ pc[t] \in {"idle", "done", "raised"}
    /\ pc' = [pc EXCEPT ![t] = "public"]
    /\ req' = [req EXCEPT ![t] = [f |-> f, v |-> v]]
    /\ locals' = [locals EXCEPT ![Frame(t)] = [f |-> f, theta |-> v, axis |-> 0]]
    /\ checked' = [checked EXCEPT ![t] = FALSE]
    /\ ret' = [ret EXCEPT ![t] = 0]
    /\ err' = [err EXCEPT ![t] = "none"]
    /\ work' = [work EXCEPT ![t] = {}]
    /\ heap' = IF ret[t] \in Ids THEN [heap EXCEPT ![ret[t]] = <<>>] ELSE heap
    /\ dirty' = dirty \ {ret[t]}

\* rotx: the argument np.array([1.0, 0, 0]) is evaluated, then the helper is
\* entered
BuildAxis(t) ==
    /\ pc[t] = "public"
    /\ CheckSite = "public" => checked[t]
    /\ LET id == FreshId(heap)
       IN  /\ heap' = [heap EXCEPT ![id] = AxisArg(locals[Frame(t)].f)]
           /\ locals' = [locals EXCEPT ![Frame(t)].axis = id]
    /\ pc' = [pc EXCEPT ![t] = "helper"]
    /\ work' = [work EXCEPT ![t] = @ \cup {"axis"}]
    /\ UNCHANGED <<req, checked, ret, err, dirty>>

\* the beartype wrapper checks theta against float; a violation unwinds the
\* call to the caller
TypeCheck(t) ==
    /\ pc[t] = CheckSite
    /\ ~checked[t]
    /\ IF IsFloat(locals[Frame(t)].theta)
       THEN /\ checked' = [checked EXCEPT ![t] = TRUE]
            /\ UNCHANGED <<pc, err, heap, locals>>
       ELSE /\ pc' = [pc EXCEPT ![t] = "raised"]
            /\ err' = [err EXCEPT ![t] = BeartypeCallHintParamViolation]
            /\ heap' = IF locals[Frame(t)].axis \in Ids
                       THEN [heap EXCEPT ![locals[Frame(t)].axis] = <<>>]
                       ELSE heap
            /\ locals' = [locals EXCEPT ![Frame(t)].axis = 0]
            /\ UNCHANGED checked
    /\ UNCHANGED <<req, ret, work, dirty>>

\* the helper's body: sin/cos of theta, the matrix assembled into a new
\* ndarray and returned; the axis array is released with the frame
Body(t) ==
    /\ pc[t] = "helper"
    /\ checked[t]
    /\ LET fr == locals[Frame(t)]
           m == fundamentalRotation(AxisVec(heap, fr.axis), fr.theta.val)
           id == FreshId(heap)
       IN  /\ heap' = IF fr.axis \in Ids
                      THEN [heap EXCEPT ![fr.axis] = <<>>, ![id] = m]
                      ELSE [heap EXCEPT ![id] = m]
           /\ ret' = [ret EXCEPT ![t] = id]
    /\ locals' = [locals EXCEPT ![Frame(t)].axis = 0]
    /\ pc' = [pc EXCEPT ![t] = "done"]
    /\ work' = [work EXCEPT ![t] = @ \cup {"trig", "matrix"}]
    /\ UNCHANGED <<req, checked, err, dirty>>

\* the caller writes into the matrix it was returned
Mutate(t) ==
    /\ pc[t] = "done"
    /\ ret[t] \in Ids
    /\ ret[t] \notin dirty
    /\ Len(heap[ret[t]]) >= 1
    /\ heap' = [heap EXCEPT ![ret[t]][1] = 7 * Scale]
    /\ dirty' = dirty \cup {ret[t]}
    /\ UNCHANGED <<pc, req, locals, checked, ret, err, work>>

\* ----------------------------------------------------------- the inputs
Grid == {k * GridStep : k \in (-MaxK)..MaxK}
Angles == Grid \cup {0, AngleUnit, -AngleUnit, 45 * AngleUnit, rotation_angle,
                     Large, -Large}
SeqArgs == {PyFloat(a) : a \in Angles} \cup {PyInt(1), PyInt(45)}
ConcArgs == {PyInt(1), PyFloat(rotation_angle)}

\* any number of callers, their calls interleaved step by step
Next ==
    \E t \in Callers :
        \/ \E f \in Funcs : \E v \in ConcArgs : Call(t, f, v)
        \/ BuildAxis(t)
        \/ TypeCheck(t)
        \/ Body(t)
        \/ Mutate(t)

Spec == Init /\ [][Next]_vars

\* one caller, one call after the other, over the whole input set
NextSeq ==
    \/ \E f \in Funcs : \E v \in SeqArgs : Call(1, f, v)
    \/ BuildAxis(1)
    \/ TypeCheck(1)
    \/ Body(1)

SpecSeq == Init /\ [][NextSeq]_vars

\* ----------------------------------------------------------- properties
Done(t) == pc[t] = "done" /\ ret[t] \in Ids
Result(t) == heap[ret[t]]
Theta(t) == req[t].v.val

\* C1: a call raises the parameter-type violation exactly when its angle is
\* not a float: a raised call had a non-float angle and carries that error, a
\* call that passed the check or returned had a float angle (whatever its sign
\* or size), carries no error and returned a 3x3 matrix; no other error exists.
C1_RaisesIffNotFloat ==
    \A t \in Callers :
        /\ err[t] \in {"none", BeartypeCallHintParamViolation}
        /\ pc[t] = "raised" =>
              req[t].v.kind # "float" /\ err[t] = BeartypeCallHintParamViolation
        /\ checked[t] => req[t].v.kind = "float" /\ err[t] = "none"
        /\ pc[t] = "done" =>
              req[t].v.kind = "float" /\ err[t] = "none" /\ ret[t] \in Ids
              /\ Len(Result(t)) = 9
        /\ pc[t] = "helper" /\ checked[t] => ENABLED Body(t)

C1_Witness ==
    /\ pc[1] = "raised"
    /\ req[1] = [f |-> "rotx", v |-> PyInt(1)]
    /\ err[1] = BeartypeCallHintParamViolation

\* C2 as stated: when the violation is raised, the call has computed nothing,
\* not even an array.
C2_NothingBeforeCheck ==
    \A t \in Callers : pc[t] = "raised" => work[t] = {}

\* C2 amended: when the violation is raised, the public function has built its
\* axis array and nothing else: no sin/cos, no matrix, nothing returned, and the
\* error is the caller's.
C2_OnlyAxisBeforeCheck ==
    \A t \in Callers :
        pc[t] = "raised" =>
            /\ work[t] = {"axis"}
            /\ ret[t] = 0
            /\ ~checked[t]
            /\ err[t] = BeartypeCallHintParamViolation

C2_Witness ==
    /\ pc[1] = "raised"
    /\ req[1] = [f |-> "rotz", v |-> PyInt(45)]
    /\ work[1] = {"axis"}

\* C3: every returned matrix times its transpose is the identity, within the
\* tolerance.
C3_Orthonormal ==
    \A t \in Callers : Done(t) => Orthonormal(Result(t))

C3_Witness ==
    /\ Done(1)
    /\ req[1] = [f |-> "rotx", v |-> PyFloat(5 * GridStep)]
    /\ Result(1)[5] # Scale

\* C4: the determinant of every returned matrix is +1, within the tolerance.
C4_DetOne ==
    \A t \in Callers : Done(t) => Abs(Det(Result(t)) - Scale) <= Tol

C4_Witness ==
    /\ Done(1)
    /\ req[1] = [f |-> "rotx", v |-> PyFloat(-Large)]
    /\ Result(1)[6] # 0

\* C5: for the float angle 0 each of the three functions returns exactly the
\* identity.
C5_IdentityAtZero ==
    \A t \in Callers : Done(t) /\ req[t].v = PyFloat(0) => Result(t) = Identity

C5_Witness ==
    /\ Done(1)
    /\ req[1] = [f |-> "rotz", v |-> PyFloat(0)]

\* C6 as stated: the matrix for theta is, within the tolerance, the matrix for
\* theta + 360.
C6_Period360 ==
    \A t \in Callers :
        Done(t) => MatClose(Result(t), Solo(req[t].f, Theta(t) + 360 * AngleUnit))

\* C6 amended: the matrix for theta is, within the tolerance, the matrix for
\* theta + 2*pi: the angle is taken in radians.
C6_PeriodTwoPi ==
    \A t \in Callers :
        Done(t) => MatClose(Result(t), Solo(req[t].f, Theta(t) + TwoPiDiv))

C6_Witness ==
    /\ Done(1)
    /\ req[1] = [f |-> "roty", v |-> PyFloat(45 * AngleUnit)]
    /\ ~MatClose(Result(1), Identity)

\* the matrices the demo prints, in 1/Scale
GoldenC == -5918
GoldenS == 8061
Golden(f) ==
    CASE f = "rotx" -> <<Scale, 0, 0, 0, GoldenC, GoldenS, 0, -GoldenS, GoldenC>>
      [] f = "roty" -> <<GoldenC, 0, -GoldenS, 0, Scale, 0, GoldenS, 0, GoldenC>>
      [] OTHER      -> <<GoldenC, GoldenS, 0, -GoldenS, GoldenC, 0, 0, 0, Scale>>

\* C7 as stated: with the float angle 45.0 each function returns the matrix the
\* demo prints for it, within the tolerance.
C7_GoldenAt45 ==
    \A t \in Callers :
        Done(t) /\ req[t].v = PyFloat(45 * AngleUnit) =>
            MatClose(Result(t), Golden(req[t].f))

\* C7 amended: with the demo's angle np.rad2deg(45) = 2578.31..., taken as
\* radians, each function returns the matrix the demo prints for it, within the
\* tolerance.
C7_GoldenAtDemoAngle ==
    \A t \in Callers :
        Done(t) /\ req[t].v = PyFloat(rotation_angle) =>
            MatClose(Result(t), Golden(req[t].f))

C7_Witness ==
    /\ Done(1)
    /\ req[1] = [f |-> "rotx", v |-> PyFloat(rotation_angle)]
    /\ MatClose(Result(1), Golden("rotx"))

\* the matrix of each axis written out entry by entry from c and s
Pattern(f, c, s) ==
    CASE f = "rotx" -> <<Scale, 0, 0, 0, c, s, 0, -s, c>>
      [] f = "roty" -> <<c, 0, -s, 0, Scale, 0, s, 0, c>>
      [] OTHER      -> <<c, s, 0, -s, c, 0, 0, 0, Scale>>

\* C10 as stated: the returned matrix is the axis pattern filled with the cos
\* and sin of theta converted from degrees to radians.
C10_PatternOfDegrees ==
    \A t \in Callers :
        Done(t) =>
            Result(t) = Pattern(req[t].f, np_cos(degToRad(Theta(t))),
                                np_sin(degToRad(Theta(t))))

\* C10 amended: the returned matrix is the axis pattern filled with the cos and
\* sin of theta itself, taken as radians; the Y pattern is the transpose of the
\* X and Z pattern.
C10_PatternOfRadians ==
    \A t \in Callers :
        Done(t) =>
            Result(t) = Pattern(req[t].f, np_cos(Theta(t)), np_sin(Theta(t)))

C10_Witness ==
    /\ Done(1)
    /\ req[1] = [f |-> "roty", v |-> PyFloat(7 * GridStep)]
    /\ Result(1)[3] = -Result(1)[7]
    /\ Result(1)[3] # 0

\* C8: under any interleaving of the callers' steps, a call that returned
\* holds exactly the matrix the same call returns when run alone (as long as
\* the caller has not itself written to it), and a call raised exactly when
\* the same call raises when run alone.
C8_SameAsAlone ==
    \A t \in Callers :
        /\ Done(t) /\ ret[t] \notin dirty =>
              Result(t) = Solo(req[t].f, Theta(t))
        /\ pc[t] = "done" => req[t].v.kind = "float"
        /\ pc[t] = "raised" => req[t].v.kind # "float"

C8_Witness ==
    /\ Done(1) /\ Done(2)
    /\ dirty = {}
    /\ req[1].f = "rotx"
    /\ req[2].f = "roty"
    /\ Result(1) # Result(2)

\* C9: every call returns a matrix of its own. No two calls that returned hold
\* the same array; a step changes the matrix a caller holds only when that
\* caller writes to it; and once some returned matrix has been written to,
\* every other returned matrix, of an earlier or a later call, is still the
\* one its call computes.
C9_FreshMatrix ==
    [][ /\ \A t \in Callers : \A u \in Callers :
              (t # u /\ pc'[t] = "done" /\ pc'[u] = "done") => ret'[t] # ret'[u]
        /\ \A u \in Callers :
              ( /\ pc[u] = "done" /\ pc'[u] = "done"
                /\ (ret[u] \in dirty) = (ret[u] \in dirty') ) =>
                  ret'[u] = ret[u] /\ heap'[ret[u]] = heap[ret[u]]
        /\ \A u \in Callers :
              (pc'[u] = "done" /\ dirty' # {} /\ ret'[u] \notin dirty') =>
                  heap'[ret'[u]] = Solo(req'[u].f, req'[u].v.val)
      ]_vars

C9_Witness ==
    \E t \in Callers : \E u \in Callers :
        /\ Done(t) /\ Done(u)
        /\ ret[t] \in dirty
        /\ ret[u] \notin dirty
        /\ Result(u) = Solo(req[u].f, Theta(u))
        /\ Result(t) # Solo(req[t].f, Theta(t))

====
